---- MODULE Spec2Model ----
(***************************************************************************)
(* GF(2^8) arithmetic of gf256-lite (src/src/lib.rs): the construction of  *)
(* the exponent and logarithm tables, and the table-driven field           *)
(* operations of Galois.                                                   *)
(***************************************************************************)
EXTENDS Integers, Sequences, FiniteSets, TLC

VARIABLES
    pc,       \* where the table construction stands: "exp_loop", "log_loop", "ready", "panicked"
    i,        \* the loop counter of the running construction loop
    exps,     \* the exponent table under construction, then EXP_TABLE
    logs,     \* the logarithm table under construction, then LOG_TABLE
    op,       \* the last field operation called ("none" before the first)
    lhs,      \* its left operand (self)
    rhs,      \* its right operand (0 when it has none)
    pow,      \* the power n of exp, a u32 as <<high 16 bits, low 16 bits>>
    ret,      \* the byte it returned (0 when it panicked)
    idx,      \* the EXP_TABLE index it read (-1 when it read none)
    outcome   \* "ok", or the panic that ended it

vars == <<pc, i, exps, logs, op, lhs, rhs, pow, ret, idx, outcome>>
buildVars == <<pc, i, exps, logs>>
callVars == <<op, lhs, rhs, pow, ret, idx, outcome>>

----------------------------------------------------------------------------
(* Constants of the program *)

PRIMITIVE_POLYNOMIAL == 285
FIELD_SIZE == 256
U8_MAX == 255
U16 == 65536

Byte == 0 .. U8_MAX
TableIndex == 0 .. FIELD_SIZE - 1

(* The bitwise ^ of two naturals, bit by bit. *)
RECURSIVE XorBits(_, _)
XorBits(a, b) ==
    IF a = 0 THEN b
    ELSE IF b = 0 THEN a
    ELSE ((a + b) % 2) + 2 * XorBits(a \div 2, b \div 2)

(* a ^ b for every pair of bytes, worked out once. *)
XorOfBytes == [a \in Byte |-> [b \in Byte |-> XorBits(a, b)]]

(* The bitwise ^ of two naturals. *)
Xor(a, b) ==
    IF a \in Byte /\ b \in Byte THEN XorOfBytes[a][b] ELSE XorBits(a, b)

(* `as u8`: truncation to the low 8 bits. *)
AsU8(v) == v % FIELD_SIZE

----------------------------------------------------------------------------
(* Table construction: gen_exp_table and gen_log_table, one loop iteration  *)
(* per step.                                                                *)

(* The body of gen_exp_table's loop up to the assertion: the previous       *)
(* element shifted left by one, reduced by the polynomial when it exceeds   *)
(* u8::MAX.                                                                 *)
(* The polynomial without its x^8 term. *)
ExpElemLowByte(prev) ==
    LET elem == prev * 2
    IN  IF elem > U8_MAX THEN Xor(elem, PRIMITIVE_POLYNOMIAL % FIELD_SIZE) ELSE elem

(* x^8 + x^4 + x^3 + x + 1 in place of the polynomial: irreducible, but x   *)
(* generates only 51 of the 255 nonzero elements.                           *)
ExpElemOtherPoly(prev) ==
    LET elem == prev * 2
    IN  IF elem > U8_MAX THEN Xor(elem, 283) ELSE elem

ExpElem(prev) ==
    LET elem == prev * 2
    IN  IF elem > U8_MAX THEN Xor(elem, PRIMITIVE_POLYNOMIAL) ELSE elem

(* assert!(elem <= u8::MAX as usize) *)
ExpAssertHolds(elem) == elem <= U8_MAX

(* let mut exps = [Galois::zero(); 256]; exps[0] = Galois(1); *)
ExpsInit == [e \in TableIndex |-> IF e = 0 THEN 1 ELSE 0]

(* let mut logs = [0u8; 256]; *)
LogsInit == [v \in TableIndex |-> 0]

(* The exclusive ends of the two loops' ranges. *)
ExpRangeEnd == FIELD_SIZE - 1

LogRangeEndInclusive == FIELD_SIZE

LogRangeEnd == FIELD_SIZE - 1

Init ==
    /\ pc = "exp_loop"
    /\ i = 1
    /\ exps = ExpsInit
    /\ logs = LogsInit
    /\ op = "none"
    /\ lhs = 0
    /\ rhs = 0
    /\ pow = <<0, 0>>
    /\ ret = 0
    /\ idx = -1
    /\ outcome = "ok"

(* One iteration of `for i in 1..FIELD_SIZE - 1` in gen_exp_table; when the *)
(* range is exhausted gen_log_table goes on with its own loop from 0. A     *)
(* failed assertion ends the construction in a panic.                       *)
GenExpStep ==
    /\ pc = "exp_loop"
    /\ IF i < ExpRangeEnd
       THEN LET elem == ExpElem(exps[i - 1])
            IN  IF ExpAssertHolds(elem)
                THEN /\ exps' = [exps EXCEPT ![i] = AsU8(elem)]
                     /\ i' = i + 1
                     /\ pc' = pc
                ELSE /\ pc' = "panicked"
                     /\ UNCHANGED <<exps, i>>
       ELSE /\ pc' = "log_loop"
            /\ i' = 0
            /\ exps' = exps
    /\ UNCHANGED logs
    /\ UNCHANGED callVars

(* The slot gen_log_table writes in iteration e: exp_tables[e].0 as usize.  *)
LogSlot(e) == exps[e]

(* One iteration of `for i in 0..FIELD_SIZE - 1` in gen_log_table; when the *)
(* range is exhausted the tables are what the statics hold.                 *)
GenLogStep ==
    /\ pc = "log_loop"
    /\ IF i < LogRangeEnd
       THEN /\ logs' = [logs EXCEPT ![LogSlot(i)] = AsU8(i)]
            /\ i' = i + 1
            /\ pc' = pc
       ELSE /\ pc' = "ready"
            /\ UNCHANGED <<logs, i>>
    /\ UNCHANGED exps
    /\ UNCHANGED callVars

(* The lazily built statics, as the field operations read them. *)
LOG_TABLE == logs
EXP_TABLE == exps

----------------------------------------------------------------------------
(* Field operations *)

add(l, r) == Xor(l, r)

sub(l, r) == Xor(l, r)

(* The sum reduced only when it exceeds 255. *)
mul_pow_gt(l, r) ==
    LET pow_l == LOG_TABLE[l]
        pow_r == LOG_TABLE[r]
        pow_mul == pow_l + pow_r
    IN  IF pow_mul > 255 THEN pow_mul - 255 ELSE pow_mul

(* The exponent mul looks up for nonzero operands. *)
mul_pow(l, r) ==
    LET pow_l == LOG_TABLE[l]
        pow_r == LOG_TABLE[r]
        pow_mul == pow_l + pow_r
    IN  IF pow_mul >= 255 THEN pow_mul - 255 ELSE pow_mul

(* mul without the test of rhs for zero. *)
mul_lhs_only(l, r) ==
    IF l = 0 THEN 0 ELSE EXP_TABLE[mul_pow(l, r)]

mul(l, r) ==
    IF l = 0 \/ r = 0 THEN 0 ELSE EXP_TABLE[mul_pow(l, r)]

(* A negative difference raised by FIELD_SIZE. *)
div_pow_field_size(l, r) ==
    LET pow_l == LOG_TABLE[l]
        pow_r == LOG_TABLE[r]
        pow_div == pow_l - pow_r
    IN  IF pow_div < 0 THEN pow_div + FIELD_SIZE ELSE pow_div

(* The exponent div looks up for nonzero operands. *)
div_pow(l, r) ==
    LET pow_l == LOG_TABLE[l]
        pow_r == LOG_TABLE[r]
        pow_div == pow_l - pow_r
    IN  IF pow_div < 0 THEN pow_div + (FIELD_SIZE - 1) ELSE pow_div

(* The divisor asserted nonzero before self is tested for zero. *)
div_outcome_assert_first(l, r) ==
    IF r = 0 THEN "divide by zero"
    ELSE IF l = 0 THEN "ok"
    ELSE IF div_pow(l, r) >= 0 THEN "ok"
    ELSE "assertion failed"

(* How a call of div ends: the early return for a zero self, then its two   *)
(* assertions.                                                              *)
div_outcome(l, r) ==
    IF l = 0 THEN "ok"
    ELSE IF r = 0 THEN "divide by zero"
    ELSE IF div_pow(l, r) >= 0 THEN "ok"
    ELSE "assertion failed"

(* The value div returns when it does not panic. *)
div(l, r) ==
    IF l = 0 THEN 0 ELSE EXP_TABLE[div_pow(l, r)]

(* A u32 is kept as <<high 16 bits, low 16 bits>>. *)
(* log_a * n in u32 arithmetic: the product modulo 2^32, and whether the     *)
(* exact product left the u32 range.                                         *)
U32MulByte(log_a, n) ==
    LET plo == log_a * n[2]
        phi == log_a * n[1] + (plo \div U16)
    IN  [overflow |-> phi >= U16, val |-> <<phi % U16, plo % U16>>]

(* The loop run `while log_res > 255`: a multiple of 255 ends at 255. *)
ReduceBy255Gt(w) ==
    LET m == ((w[1] % 255) * (U16 % 255) + w[2]) % 255
    IN  IF m = 0 /\ w # <<0, 0>> THEN 255 ELSE m

(* `while log_res >= 255 { log_res -= 255; }`: the value the loop ends with, *)
(* the remainder of log_res by 255 (2^16 = 257 * 255 + 1).                   *)
ReduceBy255(w) == ((w[1] % 255) * (U16 % 255) + w[2]) % 255

(* The exponent exp looks up for a nonzero self and n > 0, overflow wrapped. *)
exp_pow(a, n) == ReduceBy255(U32MulByte(LOG_TABLE[a], n).val)

(* Whether log_a * n overflows u32: a panic where overflow checks are on.    *)
exp_overflows(a, n) == U32MulByte(LOG_TABLE[a], n).overflow

(* A field operation is a pure function of its operands and the tables: a    *)
(* call is taken from the state the construction leaves, and records what it *)
(* was given, what it read and how it ended.                                 *)
Idle == pc = "ready" /\ op = "none"

Called(o, l, r, n, v, x, how) ==
    /\ op' = o
    /\ lhs' = l
    /\ rhs' = r
    /\ pow' = n
    /\ ret' = v
    /\ idx' = x
    /\ outcome' = how
    /\ UNCHANGED buildVars

Add ==
    /\ Idle
    /\ \E l \in Byte, r \in Byte :
        Called("add", l, r, <<0, 0>>, add(l, r), -1, "ok")

Sub ==
    /\ Idle
    /\ \E l \in Byte, r \in Byte :
        Called("sub", l, r, <<0, 0>>, sub(l, r), -1, "ok")

Mul ==
    /\ Idle
    /\ \E l \in Byte, r \in Byte :
        Called("mul", l, r, <<0, 0>>, mul(l, r),
           IF l = 0 \/ r = 0 THEN -1 ELSE mul_pow(l, r), "ok")

DivCall(o, l, r) ==
    LET how == div_outcome(l, r)
    IN  Called(o, l, r, <<0, 0>>,
               IF how = "ok" THEN div(l, r) ELSE 0,
               IF how = "ok" /\ l # 0 THEN div_pow(l, r) ELSE -1,
               how)

Div ==
    /\ Idle
    /\ \E l \in Byte, r \in Byte : DivCall("div", l, r)

(* inv: Galois::identity() / self *)
Inv ==
    /\ Idle
    /\ \E a \in Byte : DivCall("inv", 1, a)

(* The powers exp is called with: the small ones, and those around 2^16,     *)
(* 2^31 and 2^32 - 1.                                                        *)
PowSpread == 2

PowHalves ==
    (0 .. PowSpread) \cup ((U16 \div 2 - 1) .. (U16 \div 2 + PowSpread - 1))
        \cup ((U16 - 1 - PowSpread) .. (U16 - 1))

Powers == PowHalves \X PowHalves

(* exp; `checks` is whether the build has overflow checks on (a debug build  *)
(* panics on the overflow of log_a * n, a release build wraps).              *)
Exp ==
    /\ Idle
    /\ \E a \in Byte, n \in Powers, checks \in BOOLEAN :
        IF n = <<0, 0>>
        THEN Called("exp", a, 0, n, 1, -1, "ok")
        ELSE IF a = 0
        THEN Called("exp", a, 0, n, a, -1, "ok")
        ELSE IF checks /\ exp_overflows(a, n)
        THEN Called("exp", a, 0, n, 0, -1, "attempt to multiply with overflow")
        ELSE Called("exp", a, 0, n, EXP_TABLE[exp_pow(a, n)], exp_pow(a, n), "ok")

Next ==
    \/ GenExpStep
    \/ GenLogStep
    \/ Add
    \/ Sub
    \/ Mul
    \/ Div
    \/ Inv
    \/ Exp

Spec == Init /\ [][Next]_vars

(* The table construction alone. *)
NextBuild ==
    \/ GenExpStep
    \/ GenLogStep

SpecBuild == Init /\ [][NextBuild]_vars

----------------------------------------------------------------------------
(* The tables the tests expect *)

(* tests::test_logs_eq: `logs`, where logs[i - 1] is the expected           *)
(* LOG_TABLE[i]; the sequence is 1-based, so test_logs[v] is expected of    *)
(* LOG_TABLE[v].                                                            *)
test_logs == <<
    0, 1, 25, 2, 50, 26, 198, 3, 223, 51, 238, 27, 104, 199, 75, 4, 100, 224,
    14, 52, 141, 239, 129, 28, 193, 105, 248, 200, 8, 76, 113, 5, 138, 101,
    47, 225, 36, 15, 33, 53, 147, 142, 218, 240, 18, 130, 69, 29, 181, 194,
    125, 106, 39, 249, 185, 201, 154, 9, 120, 77, 228, 114, 166, 6, 191, 139,
    98, 102, 221, 48, 253, 226, 152, 37, 179, 16, 145, 34, 136, 54, 208, 148,
    206, 143, 150, 219, 189, 241, 210, 19, 92, 131, 56, 70, 64, 30, 66, 182,
    163, 195, 72, 126, 110, 107, 58, 40, 84, 250, 133, 186, 61, 202, 94, 155,
    159, 10, 21, 121, 43, 78, 212, 229, 172, 115, 243, 167, 87, 7, 112, 192,
    247, 140, 128, 99, 13, 103, 74, 222, 237, 49, 197, 254, 24, 227, 165,
    153, 119, 38, 184, 180, 124, 17, 68, 146, 217, 35, 32, 137, 46, 55, 63,
    209, 91, 149, 188, 207, 205, 144, 135, 151, 178, 220, 252, 190, 97, 242,
    86, 211, 171, 20, 42, 93, 158, 132, 60, 57, 83, 71, 109, 65, 162, 31, 45,
    67, 216, 183, 123, 164, 118, 196, 23, 73, 236, 127, 12, 111, 246, 108,
    161, 59, 82, 41, 157, 85, 170, 251, 96, 134, 177, 187, 204, 62, 90, 203,
    89, 95, 176, 156, 169, 160, 81, 11, 245, 22, 235, 122, 117, 44, 215, 79,
    174, 213, 233, 230, 231, 173, 232, 116, 214, 244, 234, 168, 80, 88, 175 >>

(* tests::test_pow_eq: `exps`, an [i8; 255] where exps[i] as u8 is the      *)
(* expected EXP_TABLE[i]; test_exps[e + 1] is the entry of exponent e.      *)
test_exps == <<
    1, 2, 4, 8, 16, 32, 64, -128, 29, 58, 116, -24, -51, -121, 19, 38, 76,
    -104, 45, 90, -76, 117, -22, -55, -113, 3, 6, 12, 24, 48, 96, -64, -99,
    39, 78, -100, 37, 74, -108, 53, 106, -44, -75, 119, -18, -63, -97, 35,
    70, -116, 5, 10, 20, 40, 80, -96, 93, -70, 105, -46, -71, 111, -34, -95,
    95, -66, 97, -62, -103, 47, 94, -68, 101, -54, -119, 15, 30, 60, 120,
    -16, -3, -25, -45, -69, 107, -42, -79, 127, -2, -31, -33, -93, 91, -74,
    113, -30, -39, -81, 67, -122, 17, 34, 68, -120, 13, 26, 52, 104, -48,
    -67, 103, -50, -127, 31, 62, 124, -8, -19, -57, -109, 59, 118, -20, -59,
    -105, 51, 102, -52, -123, 23, 46, 92, -72, 109, -38, -87, 79, -98, 33,
    66, -124, 21, 42, 84, -88, 77, -102, 41, 82, -92, 85, -86, 73, -110, 57,
    114, -28, -43, -73, 115, -26, -47, -65, 99, -58, -111, 63, 126, -4, -27,
    -41, -77, 123, -10, -15, -1, -29, -37, -85, 75, -106, 49, 98, -60, -107,
    55, 110, -36, -91, 87, -82, 65, -126, 25, 50, 100, -56, -115, 7, 14, 28,
    56, 112, -32, -35, -89, 83, -90, 81, -94, 89, -78, 121, -14, -7, -17,
    -61, -101, 43, 86, -84, 69, -118, 9, 18, 36, 72, -112, 61, 122, -12, -11,
    -9, -13, -5, -21, -53, -117, 11, 22, 44, 88, -80, 125, -6, -23, -49,
    -125, 27, 54, 108, -40, -83, 71, -114 >>

(* `as u8` of an i8: the two's complement byte. *)
I8AsU8(v) == IF v < 0 THEN v + FIELD_SIZE ELSE v


----------------------------------------------------------------------------
(* Reference arithmetic of GF(2)[x] / (x^8 + x^4 + x^3 + x^2 + 1), by      *)
(* shift and XOR, with no table.                                            *)

Pow2(k) == IF k = 0 THEN 1 ELSE 2 ^ k

(* The carry-less product of two polynomials over GF(2). *)
RECURSIVE ClMul(_, _)
ClMul(a, b) ==
    IF b = 0 THEN 0
    ELSE Xor(IF b % 2 = 1 THEN a ELSE 0, ClMul(2 * a, b \div 2))

(* p modulo x^8 + x^4 + x^3 + x^2 + 1, clearing the bits k, k - 1, .. 8. *)
RECURSIVE PolyMod(_, _)
PolyMod(p, k) ==
    IF k < 8 THEN p
    ELSE IF (p \div Pow2(k)) % 2 = 1 THEN PolyMod(Xor(p, 285 * Pow2(k - 8)), k - 1)
    ELSE PolyMod(p, k - 1)

RefMul(a, b) == PolyMod(ClMul(a, b), 14)

ValidExponent == 0 .. 254
NonZero == 1 .. 255

(* The last exponent gen_exp_table has filled in. *)
LastFilled == IF pc = "exp_loop" THEN i - 1 ELSE FIELD_SIZE - 2

----------------------------------------------------------------------------
(* Claims about the table construction, under SpecBuild *)

(* C7: exp_table[0] = 1 and every filled entry e >= 1 is the entry before   *)
(* it shifted left by one bit, XOR-ed with 0x11D exactly when the shift     *)
(* exceeded 255; the assertion in the loop never fails; every entry is a    *)
(* byte, is 2^e in the field (x times the entry before), and is the entry   *)
(* test_pow_eq expects.                                                     *)
C7_DoublingRule ==
    /\ pc # "panicked"
    /\ exps[0] = 1
    /\ \A e \in 1 .. LastFilled :
        LET shifted == 2 * exps[e - 1]
        IN  /\ exps[e] = IF shifted > 255 THEN Xor(shifted, 285) ELSE shifted
            /\ exps[e] \in Byte
            /\ exps[e] = RefMul(exps[e - 1], 2)
            /\ exps[e] = I8AsU8(test_exps[e + 1])

(* C7's case: the table is complete and reductions by the polynomial took   *)
(* place (2^8 = 0x1D, 2^254 = 142).                                         *)
C7_Witness ==
    /\ pc = "ready"
    /\ exps[7] = 128
    /\ exps[8] = 29
    /\ exps[254] = 142

(* C6: in gen_log_table no slot is written twice; once both tables are      *)
(* built every slot in [1,255] was written, the logarithm table on [1,255]  *)
(* is a bijection onto [0,254] with exp_table[log_table[a]] = a, and it is  *)
(* the table test_logs_eq expects.                                          *)
C6_TableBijection ==
    /\ (pc = "log_loop" /\ i < LogRangeEnd) =>
            \A j \in 0 .. i - 1 : LogSlot(j) # LogSlot(i)
    /\ pc = "ready" =>
        /\ {LogSlot(e) : e \in ValidExponent} = NonZero
        /\ {logs[a] : a \in NonZero} = ValidExponent
        /\ \A a \in NonZero : logs[a] \in ValidExponent /\ exps[logs[a]] = a
        /\ \A a \in NonZero : logs[a] = test_logs[a]

(* C6's case: both tables are built (log 2 = 1, log 255 = 175). *)
C6_Witness ==
    /\ pc = "ready"
    /\ logs[2] = 1
    /\ logs[255] = 175
    /\ exps[175] = 255

C8_Original ==
    /\ (pc = "log_loop" /\ i < LogRangeEnd) => LogSlot(i) # 0
    /\ pc = "ready" =>
        /\ logs[0] \notin ValidExponent
        /\ \A a \in NonZero : logs[0] # logs[a]

(* C8, amended: no iteration writes index 0, which keeps its initial value  *)
(* 0; that is the valid exponent 0, the logarithm of 1, and after the build *)
(* it differs from the logarithm of every nonzero byte but 1.               *)
C8_IndexZero ==
    /\ (pc = "log_loop" /\ i < LogRangeEnd) => LogSlot(i) # 0
    /\ logs[0] = 0
    /\ pc = "ready" =>
        /\ logs[1] = logs[0]
        /\ \A a \in 2 .. 255 : logs[0] # logs[a]

(* C8's case: the build is over and index 0 was left as it started. *)
C8_Witness ==
    /\ pc = "ready"
    /\ i = LogRangeEnd
    /\ logs[0] = 0
    /\ logs[1] = 0

----------------------------------------------------------------------------
(* Claims about the field operations, under Spec *)

Division == {"div", "inv"}

(* C1: for every byte b and every nonzero byte a, b / a does not fail and   *)
(* a * (b / a) = b; for inv, a * (1 / a) = 1.                               *)
C1_DivUndoesMul ==
    (op \in Division /\ rhs # 0) =>
        /\ outcome = "ok"
        /\ mul(rhs, ret) = lhs
        /\ op = "inv" => mul(rhs, ret) = 1

(* C1's case: the inverse of 2 was taken, and is 2^254. *)
C1_Witness ==
    /\ op = "inv"
    /\ rhs = 2
    /\ outcome = "ok"
    /\ ret = 142

(* C2: a division fails exactly when self is nonzero and the divisor is 0,  *)
(* and then by "divide by zero"; 0 / b returns 0 for every b, 0 included;   *)
(* inv(a) is 1 / a, so inv(0) fails.                                        *)
C2_DivideByZero ==
    op \in Division =>
        /\ (outcome # "ok") <=> (lhs # 0 /\ rhs = 0)
        /\ outcome \in {"ok", "divide by zero"}
        /\ lhs = 0 => ret = 0
        /\ op = "inv" => lhs = 1

(* C2's case: inv(0) was called and panicked. *)
C2_Witness ==
    /\ op = "inv"
    /\ rhs = 0
    /\ outcome = "divide by zero"

(* The power n of exp modulo 255 (2^16 = 1 modulo 255). *)
PowMod255(n) == (n[1] + n[2]) % 255

(* C3 as claimed: exp never fails and returns a byte; exp(a, 0) = 1,        *)
(* exp(0, n) = 0 for n > 0, and otherwise exp_table[(log_table[a] * n) mod  *)
(* 255] with log_table[a] * n the exact integer product.                    *)
C3_ExpExact ==
    op = "exp" =>
        /\ outcome = "ok"
        /\ ret \in Byte
        /\ pow = <<0, 0>> => ret = 1
        /\ (pow # <<0, 0>> /\ lhs = 0) => ret = 0
        /\ (pow # <<0, 0>> /\ lhs # 0) =>
                ret = EXP_TABLE[(LOG_TABLE[lhs] * PowMod255(pow)) % 255]

(* C4: (a + b) + c = a + (b + c) and (a * b) * c = a * (b * c) for all      *)
(* bytes a, b, c: ret is a + b, or a * b, of the call made.                 *)
C4_Associativity ==
    /\ op = "add" => \A c \in Byte : add(lhs, add(rhs, c)) = add(ret, c)
    /\ op = "mul" => \A c \in Byte : mul(lhs, mul(rhs, c)) = mul(ret, c)

(* C4's case: a product with the operand 255 was taken. *)
C4_Witness ==
    /\ op = "mul"
    /\ lhs = 255
    /\ rhs = 2
    /\ ret = 227

(* C9: for all bytes a and b, mul(a, b) is the carry-less product of a and  *)
(* b reduced modulo x^8 + x^4 + x^3 + x^2 + 1; 3 * 7 = 9 and 9 / 3 = 7.     *)
C9_MulIsPolyMul ==
    /\ op = "mul" => ret = RefMul(lhs, rhs)
    /\ (op = "mul" /\ lhs = 3 /\ rhs = 7) => ret = 9
    /\ (op = "div" /\ lhs = 9 /\ rhs = 3) => (outcome = "ok" /\ ret = 7)

(* C9's case: two nonzero bytes whose exponents sum past 255 were           *)
(* multiplied (log 142 = 254, log 4 = 2, 2^256 = 2).                        *)
C9_Witness ==
    /\ op = "mul"
    /\ lhs = 142
    /\ rhs = 4
    /\ idx = 1
    /\ ret = 2

(* C10: every EXP_TABLE index a field operation reads lies in [0,254]; for  *)
(* nonzero operands (and n > 0) mul, div and exp do read one, unless exp    *)
(* panicked on overflow; div's assertion pow_div >= 0 never fails; slot 255 *)
(* holds 0 and is never read: the product and the quotient of nonzero       *)
(* elements, and the power of one, are never 0.                             *)
C10_IndexInRange ==
    /\ pc = "ready" => EXP_TABLE[255] = 0
    /\ idx # -1 => idx \in 0 .. 254
    /\ outcome # "assertion failed"
    /\ (op \in {"mul"} \cup Division /\ lhs # 0 /\ rhs # 0) =>
            (idx # -1 /\ ret # 0)
    /\ (op = "exp" /\ lhs # 0 /\ pow # <<0, 0>> /\ outcome = "ok") =>
            (idx # -1 /\ ret # 0)

(* C10's case: exp was called with n = 2^32 - 1, a multiple of 255, and     *)
(* read index 0.                                                            *)
C10_Witness ==
    /\ op = "exp"
    /\ lhs = 2
    /\ pow = <<U16 - 1, U16 - 1>>
    /\ idx = 0
    /\ ret = 1

====
